---- MODULE Spec2Model ----
(***************************************************************************)
(* Recording and save pipeline of the DCAM live viewer (src/main.cpp).     *)
(*                                                                         *)
(* Three execution contexts are modelled:                                  *)
(*   - the control (UI) context, which runs the button handlers            *)
(*     startBtn / stopBtn / startSaving / stopSaving one at a time;        *)
(*   - the acquisition context of FrameGrabber, which calls the record     *)
(*     hook inline for every acquired frame;                               *)
(*   - the detached save threads started by stopSaving.                    *)
(*                                                                         *)
(* startSaving and stopSaving are modelled as operations of the control    *)
(* context that may be requested in any state in which the control context *)
(* is idle: their guards are the conditions of the lambdas themselves.     *)
(* The enabled state of the two buttons is tracked as state.               *)
(*                                                                         *)
(* Frames are identified by their acquisition number 1, 2, 3, ...          *)
(*                                                                         *)
(* The specifications share the variables and the handlers and differ in   *)
(* what the acquisition step keeps:                                        *)
(*   Spec         the recording and save path;                             *)
(*   SpecLogged   Spec with the per-frame history acqLog;                  *)
(*   SpecFair     Spec with the save threads scheduled fairly;             *)
(*   SpecDisplay  Spec with the frameReady handler and the exposure field; *)
(*   SpecCapture  Spec with the frameReady and Capture Frame handlers;     *)
(*   SpecStats    start and stop of acquisition with the grabber's         *)
(*                delivered and dropped counters;                          *)
(*   SpecThrottle acquisition with the counters and the display throttle,  *)
(*                and the opening of a recording session;                  *)
(*   SpecExit     Spec with the end of the process;                        *)
(*   SpecViewer   the viewer window (ViewerWindow), which shares no state  *)
(*                with the pipeline.                                       *)
(***************************************************************************)
EXTENDS Integers, Sequences, FiniteSets, TLC

\* ---- bounds of the model ----
MaxFrames == 2
MaxSessions == 2
MaxClock == 2
MaxCaptures == 1
MaxIndex == 3
MaxEvery == 2
MaxFiles == 12

\* ---- program constants ----
MinWidth == 6
TicksPerSecond == 2
ProgressEvery == 100
DefaultExposure == 10
DefaultDisplayEvery == 1

\* values the operator sets the exposure field to
ExposureValues == {DefaultExposure, 20}

NullTime == 0 - 1

VARIABLES
    viewerOnly,           \* bool viewerOnly
    grabbing,             \* FrameGrabber is running its acquisition loop
    acquired,             \* number of frames the acquisition loop has obtained
    acqLog,               \* history: one entry per acquired frame (kept under SpecLogged)
    hookPc,               \* position of the acquisition context inside the record hook
    hookImg,              \* the frame the record hook was called with
    saveMutex,            \* QMutex saveMutex: "free" or "hook"
    saveBuffer,           \* std::vector<QImage> saveBuffer
    recording,            \* std::atomic<bool> recording
    saving,               \* std::atomic<bool> saving
    recordedFrames,       \* std::atomic<int> recordedFrames
    recordStartTime,      \* QDateTime recordStartTime
    saveStartBtnEnabled,  \* saveStartBtn->isEnabled()
    saveStopBtnEnabled,   \* saveStopBtn->isEnabled()
    saveInfoTimerActive,  \* saveInfoTimer.isActive()
    uiPc,                 \* position of the control context inside a handler
    workers,              \* the save threads started so far, in start order
    disk,                 \* directories and files below the base save path
    now,                  \* the time QDateTime::currentDateTime() returned last, in ticks
    sessionNo,            \* history: number of recording sessions opened
    closedSessions,       \* history: sessions closed by stopSaving
    call,                 \* history: the last handler invoked on the control context
    displayQueue,         \* frameReady signals queued for the control context
    lastFrame,            \* QImage lastFrame (0: null image)
    lastMeta,             \* FrameMeta lastMeta
    exposureSpin,         \* exposureSpin->value(), in ms
    captureStatus,        \* the text the Capture Frame handler put on statusLabel last
    tracker,              \* the grabber's counters and the result of its last waitForFrame
    displayEvery,         \* the value grabber.setDisplayEvery() was given last
    viewer                \* ViewerWindow: frameFiles.size(), the slider, the last input

vars == <<viewerOnly, grabbing, acquired, acqLog, hookPc, hookImg, saveMutex, saveBuffer,
          recording, saving, recordedFrames, recordStartTime,
          saveStartBtnEnabled, saveStopBtnEnabled, saveInfoTimerActive,
          uiPc, workers, disk, now, sessionNo, closedSessions, call,
          displayQueue, lastFrame, lastMeta, exposureSpin, captureStatus, tracker,
          displayEvery, viewer>>

grabVars == <<acquired, acqLog, hookPc, hookImg>>
btnVars == <<saveStartBtnEnabled, saveStopBtnEnabled, saveInfoTimerActive>>
histVars == <<sessionNo, closedSessions>>
dispVars == <<displayQueue, lastFrame, lastMeta, exposureSpin, captureStatus>>

\* ---- helpers ----
Max(a, b) == IF a >= b THEN a ELSE b

Range(s) == {s[k] : k \in 1..Len(s)}

RECURSIVE Pow10(_)
Pow10(k) == IF k = 0 THEN 1 ELSE 10 * Pow10(k - 1)

\* std::ceil(std::log10(n)) for n >= 1: the least k with 10^k >= n
RECURSIVE CeilLog10From(_, _)
CeilLog10From(n, k) == IF Pow10(k) >= n THEN k ELSE CeilLog10From(n, k + 1)

CeilLog10(n) == CeilLog10From(n, 0)

\* int width = std::max(6, (int)std::ceil(std::log10(std::max<size_t>(1, frames->size()))))
SaveWidth(n) == Max(MinWidth, CeilLog10(Max(1, n)))

\* decimal digits of i >= 0, most significant first
RECURSIVE Digits(_)
Digits(i) == IF i < 10 THEN <<i>> ELSE Append(Digits(i \div 10), i % 10)

RECURSIVE Zeros(_)
Zeros(k) == IF k <= 0 THEN <<>> ELSE <<0>> \o Zeros(k - 1)

\* QString("%1.tiff").arg(i, width, 10, QChar('0')): the stem, padded to at least width
FileName(i, width) == Zeros(width - Len(Digits(i))) \o Digits(i)

\* QDateTime::toString("yyyyMMdd_hhmmss"): the time truncated to whole seconds
FormatSeconds(t) == t \div TicksPerSecond

\* QDateTime::toString("yyyy-MM-dd hh:mm:ss.zzz"): keeps the sub-second part
FormatMillis(t) == t

\* the FrameMeta the grabber builds for frame f: its frame index stands for the
\* attributes (size, binning, bits, FPS, readout speed) reported with that frame
MetaOf(f) == [frameIndex |-> f]

\* FrameMeta lastMeta{}
NoMeta == MetaOf(0)

NoDisk == [dirs |-> {}, tiff |-> {}, info |-> {}, captures |-> {}]

\* QDir::mkpath(outDir)
MkPath(d, dir) == [d EXCEPT !.dirs = @ \cup {dir}]

\* QImage::save(path, "TIFF") that succeeded: creates or replaces the file
WriteTiff(d, dir, name, img) ==
    [d EXCEPT !.tiff = {f \in @ : ~(f.dir = dir /\ f.name = name)}
                         \cup {[dir |-> dir, name |-> name, img |-> img]}]

\* capture_info.txt opened WriteOnly and written: creates or replaces the file
WriteInfo(d, dir, start, frames, meta, exposure) ==
    [d EXCEPT !.info = {f \in @ : f.dir # dir}
                         \cup {[dir |-> dir, start |-> start, frames |-> frames,
                                meta |-> meta, exposure |-> exposure]}]

\* QImage::save(<base>/<yyyyMMdd_hhmmss_zzz>.tiff, "TIFF") that succeeded
WriteCapture(d, name, img) ==
    [d EXCEPT !.captures = {f \in @ : f.name # name} \cup {[name |-> name, img |-> img]}]

\* the capture_info.txt a save thread writes from what it captured
InfoRecord(wk) ==
    [dir |-> wk.outDir, start |-> wk.recordStartStr, frames |-> Len(wk.frames),
     meta |-> wk.metaCopy, exposure |-> wk.expMsCopy]

\* a progress condition without the clause for the last frame
EmitsProgress_NoLast(i, n) == (i % ProgressEvery = 0)

\* if (i % 100 == 0 || i + 1 == frames->size()): a progress update follows write i
EmitsProgress(i, n) == (i % ProgressEvery = 0) \/ (i + 1 = n)

\* the values v = i + 1 the loop posts to savingProgress for the indices i..n-1,
\* in the order of the loop
ProgressFrom(i, n) ==
    SelectSeq([k \in 1..(n - i) |-> i + k], LAMBDA v : EmitsProgress(v - 1, n))

\* the frame indices the device reports with a frame: they may advance by more than
\* one, stay where they were, or start again from a lower value
DeviceIndices == 0..MaxIndex

\* the counters of a grabber that has delivered nothing in its current run
NoStats == [frameIndex |-> 0, delivered |-> 0, dropped |-> 0, lastWait |-> "none"]

\* a derivation of the dropped count without the clamp
DroppedOf_NoClamp(idx, deliveredSoFar) == idx - deliveredSoFar

\* dropped count: deviceFrameIndex - deliveredSoFar, clamped to >= 0
DroppedOf(idx, deliveredSoFar) == Max(0, idx - deliveredSoFar)

\* the counters of the FrameMeta built for a frame the device reports as idx: the
\* delivered count is incremented, the dropped count derived from it
CountFrame(t, idx) ==
    [frameIndex |-> idx, delivered |-> t.delivered + 1,
     dropped |-> DroppedOf(idx, t.delivered + 1), lastWait |-> "Ready"]

\* startGrabbing(): a no-op while the loop is running, else the counters are reset
StartGrabbing(t, running) == IF running THEN t ELSE NoStats

\* the values of displayEverySpin handed to grabber.setDisplayEvery()
DisplayEveryValues == DefaultDisplayEvery..MaxEvery

\* a throttle that forwards the frames whose number in the run is a multiple of k
Dispatches_EveryKth(n, k) == n % k = 0

\* DisplayThrottle: of the frames 1, 2, ... of a run the first is forwarded to the
\* display and then every k-th after it
Dispatches(n, k) == (n - 1) % k = 0

\* std::clamp(v, lo, hi)
Clamp(v, lo, hi) == IF v < lo THEN lo ELSE IF v > hi THEN hi ELSE v

\* the viewer's shortcuts
Keys == {"Left", "Right", "CtrlLeft", "CtrlRight", "PageUp", "PageDown"}

\* a key table with PageUp and PageDown exchanged
KeyDelta_PagesSwapped(key) ==
    CASE key = "Left" -> 0 - 1
      [] key = "Right" -> 1
      [] key = "CtrlLeft" -> 0 - 5
      [] key = "CtrlRight" -> 5
      [] key = "PageUp" -> 10
      [] key = "PageDown" -> 0 - 10

\* the argument each shortcut passes to stepFrames
KeyDelta(key) ==
    CASE key = "Left" -> 0 - 1
      [] key = "Right" -> 1
      [] key = "CtrlLeft" -> 0 - 5
      [] key = "CtrlRight" -> 5
      [] key = "PageUp" -> 0 - 10
      [] key = "PageDown" -> 10

\* a ViewerWindow after construction: no frame files, slider range (0, 0), value 0
NoFolder == [count |-> 0, value |-> 0, maximum |-> 0, last |-> "none"]

\* the handler invoked, and whether a session was open when it was invoked
NewCall(op) == [op |-> op, recording |-> recording]

\* ---- initial state: after main() has built the window and run doInit() ----

\* the state in which no acquisition has run yet and the grabber's display interval
\* is every
InitWith(every) ==
    /\ viewerOnly \in BOOLEAN
    /\ grabbing = FALSE
    /\ acquired = 0
    /\ acqLog = <<>>
    /\ hookPc = "idle"
    /\ hookImg = 0
    /\ saveMutex = "free"
    /\ saveBuffer = <<>>
    /\ recording = FALSE
    /\ saving = FALSE
    /\ recordedFrames = 0
    /\ recordStartTime = NullTime
    /\ saveStartBtnEnabled = TRUE
    /\ saveStopBtnEnabled = FALSE
    /\ saveInfoTimerActive = FALSE
    /\ uiPc = "idle"
    /\ workers = <<>>
    /\ disk = NoDisk
    /\ now = 0
    /\ sessionNo = 0
    /\ closedSessions = {}
    /\ call = [op |-> "none", recording |-> FALSE]
    /\ displayQueue = <<>>
    /\ lastFrame = 0
    /\ lastMeta = NoMeta
    /\ exposureSpin = DefaultExposure
    /\ captureStatus = "none"
    /\ tracker = NoStats
    /\ displayEvery = every
    /\ viewer = NoFolder

Init == InitWith(DefaultDisplayEvery)

\* ---- the clock ----

\* QDateTime::currentDateTime(): a time not before the one read last
ClockValues == now..MaxClock

\* ---- the viewer window ----

\* the viewer's variables are its own: no viewer handler touches the pipeline
pipelineVars == <<viewerOnly, grabbing, grabVars, saveMutex, saveBuffer, recording, saving,
                  recordedFrames, recordStartTime, btnVars, uiPc, workers, disk, now,
                  histVars, call, dispVars, tracker, displayEvery>>

\* slider->setValue(v): QAbstractSlider keeps the value within its range
SetValue(w, v) == [w EXCEPT !.value = Clamp(v, 0, w.maximum)]

\* stepFrames(delta): nothing without frames, else the slider value moved by delta
\* and clamped to 0..slider->maximum()
StepFrames(w, delta) ==
    IF w.count = 0
      THEN w
      ELSE SetValue(w, Clamp(w.value + delta, 0, w.maximum))

\* one of the six shortcuts activated
ViewerKey ==
    /\ \E key \in Keys :
          viewer' = [StepFrames(viewer, KeyDelta(key)) EXCEPT !.last = key]
    /\ UNCHANGED pipelineVars

\* prevBtn clicked: std::max(0, value - 1)
PrevBtn ==
    /\ viewer' = IF viewer.count = 0
                   THEN [viewer EXCEPT !.last = "prev"]
                   ELSE [SetValue(viewer, Max(0, viewer.value - 1))
                            EXCEPT !.last = "prev"]
    /\ UNCHANGED pipelineVars

\* nextBtn clicked: std::min(slider->maximum(), value + 1)
NextBtn ==
    /\ viewer' = IF viewer.count = 0
                   THEN [viewer EXCEPT !.last = "next"]
                   ELSE [SetValue(viewer, IF viewer.value + 1 < viewer.maximum
                                             THEN viewer.value + 1 ELSE viewer.maximum)
                            EXCEPT !.last = "next"]
    /\ UNCHANGED pipelineVars

\* loadFolder(dirPath): returns when the folder does not exist; else lists its n TIFF
\* files, sets the slider range to (0, max(0, n - 1)) and its value to 0
LoadFolder ==
    /\ \E exists \in BOOLEAN, n \in 0..MaxFiles :
          viewer' = IF ~exists
                      THEN [viewer EXCEPT !.last = "load"]
                      ELSE [count |-> n, value |-> 0, maximum |-> Max(0, n - 1),
                            last |-> "load"]
    /\ UNCHANGED pipelineVars

\* the slider moved by the operator to a position of its range
SliderMove ==
    /\ \E v \in 0..viewer.maximum :
          viewer' = [SetValue(viewer, v) EXCEPT !.last = "slider"]
    /\ UNCHANGED pipelineVars

\* ---- control context: Start / Stop of acquisition ----

\* startBtn clicked: controller.start() may fail; on success grabber.startGrabbing()
StartBtn ==
    /\ uiPc = "idle"
    /\ call' = NewCall("startBtn")
    /\ \E ok \in BOOLEAN :
          /\ grabbing' = IF viewerOnly THEN grabbing ELSE (grabbing \/ ok)
          /\ tracker' = IF viewerOnly \/ ~ok THEN tracker
                                              ELSE StartGrabbing(tracker, grabbing)
    /\ UNCHANGED <<viewerOnly, viewer, displayEvery, dispVars, grabVars, saveMutex, saveBuffer, recording, saving,
                   recordedFrames, recordStartTime, btnVars, uiPc, workers, disk,
                   now, histVars>>

\* stopBtn handler that also closed the recording session
StopBtn_StopsRecording ==
    /\ uiPc = "idle"
    /\ call' = NewCall("stopBtn")
    /\ IF viewerOnly
         THEN UNCHANGED <<grabbing, uiPc, recording>>
         ELSE /\ grabbing' = FALSE
              /\ uiPc' = "stop_join"
              /\ recording' = FALSE
    /\ UNCHANGED <<viewerOnly, viewer, displayEvery, tracker, dispVars, grabVars, saveMutex, saveBuffer, saving,
                   recordedFrames, recordStartTime, btnVars, workers, disk, now,
                   histVars>>

\* stopBtn handler that returned without stopping the grabber
StopBtn_KeepsGrabbing ==
    /\ uiPc = "idle"
    /\ call' = NewCall("stopBtn")
    /\ UNCHANGED <<viewerOnly, viewer, displayEvery, tracker, dispVars, grabVars, grabbing, uiPc,
                   saveMutex, saveBuffer, recording, saving, recordedFrames,
                   recordStartTime, btnVars, workers, disk, now, histVars>>

\* stopBtn clicked: grabber.stopGrabbing() clears the active flag and joins the loop
StopBtn ==
    /\ uiPc = "idle"
    /\ call' = NewCall("stopBtn")
    /\ IF viewerOnly
         THEN UNCHANGED <<grabbing, uiPc>>
         ELSE /\ grabbing' = FALSE
              /\ uiPc' = "stop_join"
    /\ UNCHANGED <<viewerOnly, viewer, displayEvery, tracker, dispVars, grabVars, saveMutex, saveBuffer, recording, saving,
                   recordedFrames, recordStartTime, btnVars, workers, disk, now,
                   histVars>>

\* stopGrabbing() returns once the loop's current iteration has finished;
\* then controller.stop() and the status text
StopBtnJoin ==
    /\ uiPc = "stop_join"
    /\ hookPc = "idle"
    /\ uiPc' = "idle"
    /\ UNCHANGED <<viewerOnly, viewer, displayEvery, tracker, dispVars, grabbing, grabVars, saveMutex, saveBuffer, recording,
                   saving, recordedFrames, recordStartTime, btnVars, workers, disk,
                   now, histVars, call>>

\* ---- control context: display of frames, settings ----

\* frameReady handler: imageView->setImage(img); lastFrame = img; lastMeta = meta;
FrameReady ==
    /\ uiPc = "idle"
    /\ displayQueue # <<>>
    /\ lastFrame' = Head(displayQueue)
    /\ lastMeta' = MetaOf(Head(displayQueue))
    /\ displayQueue' = Tail(displayQueue)
    /\ UNCHANGED <<viewerOnly, viewer, displayEvery, tracker, exposureSpin, captureStatus, grabbing, grabVars, saveMutex,
                   saveBuffer, recording, saving, recordedFrames, recordStartTime, btnVars, uiPc,
                   workers, disk, now, histVars, call>>

\* the operator edits the exposure field
SetExposure ==
    /\ uiPc = "idle"
    /\ \E v \in ExposureValues \ {exposureSpin} : exposureSpin' = v
    /\ UNCHANGED <<viewerOnly, viewer, displayEvery, tracker, displayQueue, lastFrame, lastMeta, captureStatus,
                   grabbing, grabVars, saveMutex, saveBuffer, recording, saving, recordedFrames,
                   recordStartTime, btnVars, uiPc, workers, disk, now, histVars, call>>

\* Capture Frame handler that refuses under the given condition:
\* if (<refuse>) { "No frame to capture"; return; }
\* fname from the current time; lastFrame.save(...) ? "Captured: ..." : "Capture failed"
CaptureBtnIf(refuse) ==
    /\ uiPc = "idle"
    /\ Cardinality(disk.captures) < MaxCaptures
    /\ call' = NewCall("capture")
    /\ IF refuse
         THEN /\ captureStatus' = "No frame to capture"
              /\ UNCHANGED <<disk, now>>
         ELSE \E t \in ClockValues, ok \in BOOLEAN :
                 /\ now' = t
                 /\ disk' = IF ok THEN WriteCapture(disk, FormatMillis(t), lastFrame) ELSE disk
                 /\ captureStatus' = IF ok THEN "Captured" ELSE "Capture failed"
    /\ UNCHANGED <<viewerOnly, viewer, displayEvery, tracker, displayQueue, lastFrame, lastMeta, exposureSpin, grabbing,
                   grabVars, saveMutex, saveBuffer, recording, saving, recordedFrames,
                   recordStartTime, btnVars, uiPc, workers, histVars>>

\* Capture Frame handler without the test for a null image
CaptureBtn_NoNullCheck == CaptureBtnIf(FALSE)

\* captureBtn clicked:  if (lastFrame.isNull()) { ... return; }
CaptureBtn == CaptureBtnIf(lastFrame = 0)

\* ---- control context: startSaving ----

\* entry of startSaving, refused under the given condition:
\* if (<refuse>) { status text; return; }  recording = true;
StartSavingIf(refuse) ==
    /\ uiPc = "idle"
    /\ (~refuse) => sessionNo < MaxSessions
    /\ call' = NewCall("startSaving")
    /\ IF refuse
         THEN UNCHANGED <<recording, uiPc, sessionNo>>
         ELSE /\ recording' = TRUE
              /\ uiPc' = "start_clear"
              /\ sessionNo' = sessionNo + 1
    /\ UNCHANGED <<viewerOnly, viewer, displayEvery, tracker, dispVars, grabbing, grabVars, saveMutex, saveBuffer, saving,
                   recordedFrames, recordStartTime, btnVars, workers, disk, now,
                   closedSessions>>

\* startSaving without the saving check
StartSaving_NoSavingGuard == StartSavingIf(FALSE)

\* startSaving that tests the recording flag in place of the saving flag
StartSaving_ChecksRecording == StartSavingIf(recording)

\* startSaving that also refuses while the grabber is not running
StartSaving_OnlyWhileGrabbing == StartSavingIf(saving \/ ~grabbing)

\* startSaving that sets the recording flag before it tests the saving flag
StartSaving_FlagBeforeCheck ==
    /\ uiPc = "idle"
    /\ (~saving) => sessionNo < MaxSessions
    /\ call' = NewCall("startSaving")
    /\ recording' = TRUE
    /\ IF saving
         THEN UNCHANGED <<uiPc, sessionNo>>
         ELSE /\ uiPc' = "start_clear"
              /\ sessionNo' = sessionNo + 1
    /\ UNCHANGED <<viewerOnly, viewer, displayEvery, tracker, dispVars, grabbing, grabVars,
                   saveMutex, saveBuffer, saving, recordedFrames, recordStartTime,
                   btnVars, workers, disk, now, closedSessions>>

\* if (saving.load()) { "Already saving to disk"; return; }  recording = true;
StartSaving == StartSavingIf(saving)

\* { QMutexLocker lk(saveMutex); saveBuffer->clear(); }
StartSavingClear ==
    /\ uiPc = "start_clear"
    /\ saveMutex = "free"
    /\ saveBuffer' = <<>>
    /\ uiPc' = "start_rest"
    /\ UNCHANGED <<viewerOnly, viewer, displayEvery, tracker, dispVars, grabbing, grabVars, saveMutex, recording, saving,
                   recordedFrames, recordStartTime, btnVars, workers, disk, now,
                   histVars, call>>

\* recordedFrames = 0; recordTimer.restart(); recordStartTime = now; buttons; timer
StartSavingRest ==
    /\ uiPc = "start_rest"
    /\ recordedFrames' = 0
    /\ \E t \in ClockValues :
          /\ now' = t
          /\ recordStartTime' = t
    /\ saveStartBtnEnabled' = FALSE
    /\ saveStopBtnEnabled' = TRUE
    /\ saveInfoTimerActive' = TRUE
    /\ uiPc' = "idle"
    /\ UNCHANGED <<viewerOnly, viewer, displayEvery, tracker, dispVars, grabbing, grabVars, saveMutex, saveBuffer, recording,
                   saving, workers, disk, histVars, call>>

\* ---- control context: stopSaving ----

\* entry of stopSaving, refused under the given condition:
\* if (<refuse>) return;  recording = false; buttons; saveInfoTimer.stop();
StopSavingIf(refuse) ==
    /\ uiPc = "idle"
    /\ call' = NewCall("stopSaving")
    /\ IF refuse
         THEN UNCHANGED <<recording, btnVars, uiPc, closedSessions>>
         ELSE /\ recording' = FALSE
              /\ saveStartBtnEnabled' = TRUE
              /\ saveStopBtnEnabled' = FALSE
              /\ saveInfoTimerActive' = FALSE
              /\ uiPc' = "stop_swap"
              /\ closedSessions' = closedSessions \cup {sessionNo}
    /\ UNCHANGED <<viewerOnly, viewer, displayEvery, tracker, dispVars, grabbing, grabVars, saveMutex, saveBuffer, saving,
                   recordedFrames, recordStartTime, workers, disk, now, sessionNo>>

\* stopSaving without the recording check
StopSaving_NoGuard == StopSavingIf(FALSE)

\* if (!recording.load()) return;  recording = false; buttons; saveInfoTimer.stop();
StopSaving == StopSavingIf(~recording)

\* a save thread that takes its directory name from the start of the session
NewWorker_DirFromStart(frames, outDir) ==
    [sess |-> sessionNo, frames |-> frames,
     outDir |-> FormatSeconds(recordStartTime),
     width |-> SaveWidth(Len(frames)), i |-> 0, pc |-> "write", log |-> <<>>,
     progress |-> <<>>, metaCopy |-> lastMeta, expMsCopy |-> exposureSpin,
     recordStartStr |-> FormatMillis(recordStartTime), infoOk |-> FALSE]

\* the save thread as stopSaving creates it
NewWorker(frames, outDir) ==
    [sess |-> sessionNo, frames |-> frames, outDir |-> outDir,
     width |-> SaveWidth(Len(frames)), i |-> 0, pc |-> "write", log |-> <<>>,
     progress |-> <<>>, metaCopy |-> lastMeta, expMsCopy |-> exposureSpin,
     recordStartStr |-> FormatMillis(recordStartTime), infoOk |-> FALSE]

\* { lock; frames->swap(*saveBuffer); }  if (<empty>) return;
\* outDir from the current time; mkpath; saving = true; std::thread(...).detach()
StopSavingSwapIf(empty) ==
    /\ uiPc = "stop_swap"
    /\ saveMutex = "free"
    /\ saveBuffer' = <<>>
    /\ uiPc' = "idle"
    /\ IF empty
         THEN UNCHANGED <<saving, workers, disk, now>>
         ELSE \E t \in ClockValues :
                 /\ now' = t
                 /\ disk' = MkPath(disk, FormatSeconds(t))
                 /\ saving' = TRUE
                 /\ workers' = Append(workers, NewWorker(saveBuffer, FormatSeconds(t)))
    /\ UNCHANGED <<viewerOnly, viewer, displayEvery, tracker, dispVars, grabbing, grabVars, saveMutex, recording,
                   recordedFrames, recordStartTime, btnVars, histVars, call>>

\* stopSaving without the check for an empty sequence
StopSavingSwap_AlwaysSpawn == StopSavingSwapIf(FALSE)

\* { lock; frames->swap(*saveBuffer); }  if (frames->empty()) { "No frames to save"; return; }
StopSavingSwap == StopSavingSwapIf(saveBuffer = <<>>)

\* ---- acquisition context ----

\* record hook, entry:  if (!recording.load()) return;
RecordHook(img) ==
    IF recording
      THEN /\ hookPc' = "lock"
           /\ hookImg' = img
      ELSE UNCHANGED <<hookPc, hookImg>>

\* what the history keeps of an acquired frame: whether the record hook found the
\* recording flag set, in which session, and whether the control context was idle
AcqEntry ==
    IF recording
      THEN [flag |-> TRUE, sess |-> sessionNo, quiet |-> (uiPc = "idle")]
      ELSE [flag |-> FALSE, sess |-> 0, quiet |-> FALSE]

\* one iteration of the acquisition loop that yields a frame: the record hook is
\* called inline with the copied frame; log is the history and queue the queued
\* frameReady signals after the step
GrabFrameWith(log, queue, counters) ==
    /\ grabbing
    /\ hookPc = "idle"
    /\ acquired < MaxFrames
    /\ acquired' = acquired + 1
    /\ acqLog' = log
    /\ displayQueue' = queue
    /\ tracker' = counters
    /\ RecordHook(acquired + 1)
    /\ UNCHANGED <<viewerOnly, viewer, displayEvery, lastFrame, lastMeta, exposureSpin, captureStatus, grabbing, saveMutex, saveBuffer, recording, saving,
                   recordedFrames, recordStartTime, btnVars, uiPc, workers, disk,
                   now, histVars, call>>

\* the acquisition step as the recording and save path sees it
GrabFrame == GrabFrameWith(acqLog, displayQueue, tracker)

\* the same step with the history entry of the frame recorded
GrabFrameLogged == GrabFrameWith(Append(acqLog, AcqEntry), displayQueue, tracker)

\* the same step with the frameReady signal of the frame queued for the control context
GrabFrameShown == GrabFrameWith(acqLog, Append(displayQueue, acquired + 1), tracker)

\* the same step with the counters of the frame's FrameMeta kept: the device reports
\* any index with the frame
GrabFrameCounted ==
    \E idx \in DeviceIndices :
        GrabFrameWith(acqLog, displayQueue, CountFrame(tracker, idx))

\* the acquisition step with the counters kept and the display throttle applied to
\* the frame's number in the run
GrabFrameThrottled ==
    \E idx \in DeviceIndices :
        GrabFrameWith(acqLog,
                      IF Dispatches(tracker.delivered + 1, displayEvery)
                        THEN Append(displayQueue, acquired + 1)
                        ELSE displayQueue,
                      CountFrame(tracker, idx))

\* an iteration of the acquisition loop whose waitForFrame timed out: the loop goes on
WaitTimeout ==
    /\ grabbing
    /\ hookPc = "idle"
    /\ tracker' = [tracker EXCEPT !.lastWait = "Timeout"]
    /\ UNCHANGED <<viewerOnly, viewer, displayEvery, grabbing, grabVars, dispVars, saveMutex, saveBuffer,
                   recording, saving, recordedFrames, recordStartTime, btnVars, uiPc,
                   workers, disk, now, histVars, call>>

\* an iteration that reported the error of waitForFrame and went on with the loop
WaitError_Retries ==
    /\ grabbing
    /\ hookPc = "idle"
    /\ tracker' = [tracker EXCEPT !.lastWait = "Error"]
    /\ UNCHANGED <<viewerOnly, viewer, displayEvery, grabbing, grabVars, dispVars, saveMutex,
                   saveBuffer, recording, saving, recordedFrames, recordStartTime,
                   btnVars, uiPc, workers, disk, now, histVars, call>>

\* an iteration whose waitForFrame reported an error: the loop stops itself
WaitError ==
    /\ grabbing
    /\ hookPc = "idle"
    /\ grabbing' = FALSE
    /\ tracker' = [tracker EXCEPT !.lastWait = "Error"]
    /\ UNCHANGED <<viewerOnly, viewer, displayEvery, grabVars, dispVars, saveMutex, saveBuffer,
                   recording, saving, recordedFrames, recordStartTime, btnVars, uiPc,
                   workers, disk, now, histVars, call>>

\* a record hook whose buffer is still the vector the unfinished save jobs hold
HookPush_IntoJob ==
    /\ hookPc = "lock"
    /\ saveMutex = "free"
    /\ saveMutex' = "hook"
    /\ saveBuffer' = Append(saveBuffer, hookImg)
    /\ hookPc' = "inc"
    /\ workers' = [w \in 1..Len(workers) |->
                      IF workers[w].pc = "done"
                        THEN workers[w]
                        ELSE [workers[w] EXCEPT !.frames = Append(@, hookImg)]]
    /\ UNCHANGED <<viewerOnly, viewer, displayEvery, tracker, dispVars, grabbing, acquired,
                   acqLog, hookImg, recording, saving, recordedFrames, recordStartTime,
                   btnVars, uiPc, disk, now, histVars, call>>

\* QMutexLocker lk(saveMutex); saveBuffer->push_back(img.copy());
HookPush ==
    /\ hookPc = "lock"
    /\ saveMutex = "free"
    /\ saveMutex' = "hook"
    /\ saveBuffer' = Append(saveBuffer, hookImg)
    /\ hookPc' = "inc"
    /\ UNCHANGED <<viewerOnly, viewer, displayEvery, tracker, dispVars, grabbing, acquired, acqLog, hookImg, recording, saving,
                   recordedFrames, recordStartTime, btnVars, uiPc, workers, disk,
                   now, histVars, call>>

\* recordedFrames++;  (end of scope releases the mutex)
HookInc ==
    /\ hookPc = "inc"
    /\ recordedFrames' = recordedFrames + 1
    /\ saveMutex' = "free"
    /\ hookPc' = "idle"
    /\ hookImg' = 0
    /\ UNCHANGED <<viewerOnly, viewer, displayEvery, tracker, dispVars, grabbing, acquired, acqLog, saveBuffer, recording,
                   saving, recordStartTime, btnVars, uiPc, workers, disk, now,
                   histVars, call>>

\* ---- save thread ----

\* loop body, with the number that goes into the file name:
\* fname = QString("%1.tiff").arg(<idx>, width, 10, '0'); im.save(path, "TIFF");
\* then the queued savingProgress->setValue(i + 1) on the first, every 100th and last frame
SaveWriteNamed(w, idx) ==
    /\ workers[w].pc = "write"
    /\ workers[w].i < Len(workers[w].frames)
    /\ \E ok \in BOOLEAN :
         LET wk == workers[w]
             name == FileName(idx, wk.width)
             img == wk.frames[wk.i + 1]
         IN /\ disk' = IF ok THEN WriteTiff(disk, wk.outDir, name, img) ELSE disk
            /\ workers' = [workers EXCEPT ![w].i = @ + 1,
                             ![w].log = Append(@, [name |-> name, img |-> img, ok |-> ok]),
                             ![w].progress =
                                 IF EmitsProgress(wk.i, Len(wk.frames))
                                   THEN Append(@, wk.i + 1) ELSE @]
    /\ UNCHANGED <<viewerOnly, viewer, displayEvery, tracker, dispVars, grabbing, grabVars, saveMutex, saveBuffer, recording,
                   saving, recordedFrames, recordStartTime, btnVars, uiPc, now,
                   histVars, call>>

\* file names counted from 1
SaveWrite_OneBased(w) == SaveWriteNamed(w, workers[w].i + 1)

\* a loop that leaves at the first failed write and goes on to capture_info.txt
SaveWrite_BreaksOnFailure(w) ==
    /\ workers[w].pc = "write"
    /\ workers[w].i < Len(workers[w].frames)
    /\ \E ok \in BOOLEAN :
         LET wk == workers[w]
             name == FileName(wk.i, wk.width)
             img == wk.frames[wk.i + 1]
         IN /\ disk' = IF ok THEN WriteTiff(disk, wk.outDir, name, img) ELSE disk
            /\ workers' = [workers EXCEPT ![w].i = IF ok THEN @ + 1 ELSE Len(wk.frames),
                             ![w].log = Append(@, [name |-> name, img |-> img, ok |-> ok])]
    /\ UNCHANGED <<viewerOnly, viewer, displayEvery, tracker, dispVars, grabbing, grabVars, saveMutex, saveBuffer, recording,
                   saving, recordedFrames, recordStartTime, btnVars, uiPc, now,
                   histVars, call>>

\* a loop that gives up at the first failed write and never finishes
SaveWrite_HaltsOnFailure(w) ==
    /\ workers[w].pc = "write"
    /\ workers[w].i < Len(workers[w].frames)
    /\ \E ok \in BOOLEAN :
         LET wk == workers[w]
             name == FileName(wk.i, wk.width)
             img == wk.frames[wk.i + 1]
         IN /\ disk' = IF ok THEN WriteTiff(disk, wk.outDir, name, img) ELSE disk
            /\ workers' = [workers EXCEPT ![w].i = @ + 1,
                             ![w].log = Append(@, [name |-> name, img |-> img, ok |-> ok]),
                             ![w].pc = IF ok THEN "write" ELSE "failed"]
    /\ UNCHANGED <<viewerOnly, viewer, displayEvery, tracker, dispVars, grabbing, grabVars, saveMutex, saveBuffer, recording,
                   saving, recordedFrames, recordStartTime, btnVars, uiPc, now,
                   histVars, call>>

\* loop body: the name is the loop index i; the result of im.save is ignored
SaveWrite(w) == SaveWriteNamed(w, workers[w].i)

\* a save thread that reads lastMeta and the exposure field when it writes the file
SaveInfo_ReadsCurrent(w) ==
    /\ workers[w].pc = "write"
    /\ workers[w].i = Len(workers[w].frames)
    /\ \E ok \in BOOLEAN :
         LET wk == workers[w]
         IN /\ disk' = IF ok
                         THEN WriteInfo(disk, wk.outDir, wk.recordStartStr, Len(wk.frames),
                                        lastMeta, exposureSpin)
                         ELSE disk
            /\ workers' = [workers EXCEPT ![w].pc = "finish", ![w].infoOk = ok]
    /\ UNCHANGED <<viewerOnly, viewer, displayEvery, tracker, dispVars, grabbing, grabVars, saveMutex, saveBuffer, recording,
                   saving, recordedFrames, recordStartTime, btnVars, uiPc, now,
                   histVars, call>>

\* after the loop: capture_info.txt, written only if the file could be opened
SaveInfo(w) ==
    /\ workers[w].pc = "write"
    /\ workers[w].i = Len(workers[w].frames)
    /\ \E ok \in BOOLEAN :
         LET wk == workers[w]
         IN /\ disk' = IF ok
                         THEN WriteInfo(disk, wk.outDir, wk.recordStartStr, Len(wk.frames),
                                        wk.metaCopy, wk.expMsCopy)
                         ELSE disk
            /\ workers' = [workers EXCEPT ![w].pc = "finish", ![w].infoOk = ok]
    /\ UNCHANGED <<viewerOnly, viewer, displayEvery, tracker, dispVars, grabbing, grabVars, saveMutex, saveBuffer, recording,
                   saving, recordedFrames, recordStartTime, btnVars, uiPc, now,
                   histVars, call>>

\* a save thread that reports completion and clears the flag while it is still writing
SaveFinish_WhileWriting(w) ==
    /\ workers[w].pc \in {"write", "finish"}
    /\ saving' = FALSE
    /\ workers' = [workers EXCEPT ![w].pc = "done"]
    /\ UNCHANGED <<viewerOnly, viewer, displayEvery, tracker, dispVars, grabbing, grabVars, saveMutex, saveBuffer, recording,
                   recordedFrames, recordStartTime, btnVars, uiPc, disk, now,
                   histVars, call>>

\* queued "Save complete" and dialog hide;  saving = false;
SaveFinish(w) ==
    /\ workers[w].pc = "finish"
    /\ saving' = FALSE
    /\ workers' = [workers EXCEPT ![w].pc = "done"]
    /\ UNCHANGED <<viewerOnly, viewer, displayEvery, tracker, dispVars, grabbing, grabVars, saveMutex, saveBuffer, recording,
                   recordedFrames, recordStartTime, btnVars, uiPc, disk, now,
                   histVars, call>>

\* a detached save thread runs for as long as the process does
SaveThread ==
    /\ uiPc # "exited"
    /\ \E w \in 1..Len(workers) : SaveWrite(w) \/ SaveInfo(w) \/ SaveFinish(w)

\* ---- control context: leaving the event loop ----

\* the application quits: the aboutToQuit handler calls grabber.stopGrabbing()
Quit ==
    /\ uiPc = "idle"
    /\ call' = NewCall("quit")
    /\ grabbing' = FALSE
    /\ uiPc' = "quit_join"
    /\ UNCHANGED <<viewerOnly, viewer, displayEvery, tracker, dispVars, grabVars, saveMutex,
                   saveBuffer, recording, saving, recordedFrames, recordStartTime,
                   btnVars, workers, disk, now, histVars>>

\* stopGrabbing() has joined the loop; controller.stop(), cleanup(), app.exec()
\* returns and main returns rc: nothing waits for a save thread
QuitJoin ==
    /\ uiPc = "quit_join"
    /\ hookPc = "idle"
    /\ uiPc' = "exited"
    /\ UNCHANGED <<viewerOnly, viewer, displayEvery, tracker, dispVars, grabbing, grabVars,
                   saveMutex, saveBuffer, recording, saving, recordedFrames,
                   recordStartTime, btnVars, workers, disk, now, histVars, call>>

\* the steps of the control context, of the record hook and of the save threads
Handlers ==
    \/ StartBtn
    \/ StopBtn
    \/ StopBtnJoin
    \/ StartSaving
    \/ StartSavingClear
    \/ StartSavingRest
    \/ StopSaving
    \/ StopSavingSwap
    \/ HookPush
    \/ HookInc
    \/ SaveThread

Next == Handlers \/ GrabFrame

\* the program
Spec == Init /\ [][Next]_vars

\* the save thread is a detached std::thread that waits for nothing but its own
\* file writes: whenever it has a step to take it eventually takes it
SpecFair == Spec /\ WF_vars(SaveThread)

NextLogged == Handlers \/ GrabFrameLogged

\* the program with the history of the acquired frames recorded
SpecLogged == Init /\ [][NextLogged]_vars

NextDisplay == Handlers \/ GrabFrameShown \/ FrameReady \/ SetExposure

\* the recording and save path together with the display path and the exposure field
SpecDisplay == Init /\ [][NextDisplay]_vars

NextCapture == Handlers \/ GrabFrameShown \/ FrameReady \/ CaptureBtn

\* the recording and save path together with the display path and Capture Frame
SpecCapture == Init /\ [][NextCapture]_vars

\* acquisition with the grabber's counters: start and stop of the grabber, and the
\* three outcomes of waitForFrame
NextStats == StartBtn \/ StopBtn \/ StopBtnJoin \/ GrabFrameCounted \/ WaitTimeout \/ WaitError

SpecStats == Init /\ [][NextStats]_vars

\* the state after construction with the display interval the operator applied
\* (applySettings hands the interval to the grabber also when the apply failed and
\* acquisition was not started)
InitThrottle == \E k \in DisplayEveryValues : InitWith(k)

\* acquisition with the display throttle: start and stop of the grabber, the opening
\* of a recording session and the record hook
NextThrottle ==
    \/ StartBtn
    \/ StopBtn
    \/ StopBtnJoin
    \/ StartSaving
    \/ StartSavingClear
    \/ StartSavingRest
    \/ HookPush
    \/ HookInc
    \/ GrabFrameThrottled

SpecThrottle == InitThrottle /\ [][NextThrottle]_vars

\* the recording and save path up to the end of the process
NextExit == Next \/ Quit \/ QuitJoin

SpecExit == Init /\ [][NextExit]_vars

\* the viewer window alone
NextViewer == ViewerKey \/ PrevBtn \/ NextBtn \/ LoadFolder \/ SliderMove

SpecViewer == Init /\ [][NextViewer]_vars

TypeOK ==
    /\ viewerOnly \in BOOLEAN
    /\ grabbing \in BOOLEAN
    /\ acquired \in 0..MaxFrames
    /\ Len(acqLog) \in {0, acquired}
    /\ hookPc \in {"idle", "lock", "inc"}
    /\ saveMutex \in {"free", "hook"}
    /\ recording \in BOOLEAN
    /\ saving \in BOOLEAN
    /\ uiPc \in {"idle", "stop_join", "start_clear", "start_rest", "stop_swap",
                "quit_join", "exited"}
    /\ Len(displayQueue) <= acquired
    /\ lastFrame \in 0..acquired
    /\ lastMeta = MetaOf(lastFrame)
    /\ exposureSpin \in ExposureValues
    /\ captureStatus \in {"none", "No frame to capture", "Captured", "Capture failed"}
    /\ Cardinality(disk.captures) <= MaxCaptures
    /\ tracker.delivered \in 0..acquired
    /\ tracker.frameIndex \in DeviceIndices
    /\ tracker.dropped \in 0..MaxIndex
    /\ tracker.lastWait \in {"none", "Ready", "Timeout", "Error"}
    /\ displayEvery \in DisplayEveryValues
    /\ viewer.count \in 0..MaxFiles
    /\ viewer.maximum = Max(0, viewer.count - 1)

\* ---- vocabulary of the properties ----

\* a step of the control context: a handler is invoked or moves on
UiStep == call' # call \/ uiPc' # uiPc

\* the step in which the control context enters startSaving / stopSaving
StartEntry == uiPc = "idle" /\ call'.op = "startSaving" /\ UiStep

StopEntry == uiPc = "idle" /\ call'.op = "stopSaving" /\ UiStep

ActiveWorkers == {w \in 1..Len(workers) : workers[w].pc # "done"}

JobFrames == UNION {Range(workers[w].frames) : w \in 1..Len(workers)}

\* a < b in the order of strings (character by character, a proper prefix first)
RECURSIVE LexLess(_, _)
LexLess(a, b) ==
    IF b = <<>> THEN FALSE
    ELSE IF a = <<>> THEN TRUE
    ELSE IF Head(a) # Head(b) THEN Head(a) < Head(b)
    ELSE LexLess(Tail(a), Tail(b))

\* ---- C1 ----

\* C1: every SaveJob holds exactly the frames acquired in its own session, each
\* once and in acquisition order: its frames are strictly increasing, each was
\* accepted by the record hook in that session, and no frame acquired while the
\* session was open (control context idle between startSaving and stopSaving)
\* is missing from it.
C1_JobHoldsSessionFrames ==
    \A w \in 1..Len(workers) :
        LET job == workers[w].frames
            s == workers[w].sess
        IN /\ \A k \in 1..(Len(job) - 1) : job[k] < job[k + 1]
           /\ \A f \in Range(job) : acqLog[f].sess = s
           /\ \A f \in 1..Len(acqLog) :
                 (acqLog[f].flag /\ acqLog[f].quiet /\ acqLog[f].sess = s)
                     => f \in Range(job)

\* ---- C2 ----

\* frames the record hook accepted around a stopSaving: in a session that
\* stopSaving has closed, or during the startSaving that followed a closed session
AcceptedAroundStop(f) ==
    /\ acqLog[f].flag
    /\ \/ acqLog[f].quiet /\ acqLog[f].sess \in closedSessions
       \/ ~acqLog[f].quiet /\ (acqLog[f].sess - 1) \in closedSessions

\* where an accepted frame can be: still on its way into the buffer, in the
\* buffer, or in a sequence handed to a save
Accounted ==
    Range(saveBuffer) \cup JobFrames \cup (IF hookPc = "lock" THEN {hookImg} ELSE {})

\* C2: no frame accepted around stopSaving(); startSaving() is lost: it is in
\* the sequence handed to the save or in the recording buffer, never discarded
\* by the swap or by the clear of startSaving.
C2_NoFrameLostAcrossRestart ==
    \A f \in 1..Len(acqLog) : AcceptedAroundStop(f) => f \in Accounted

\* ---- C3 ----

\* C3: at most one save thread is active at any time; the saving flag is set
\* exactly while one is active, and while it is set no recording session is
\* open or being opened or closed, so no second save can be requested.
C3_OneSaveWorker ==
    /\ Cardinality(ActiveWorkers) <= 1
    /\ saving <=> (ActiveWorkers # {})
    /\ saving => (~recording /\ uiPc \notin {"start_clear", "start_rest", "stop_swap"})

\* two sessions were saved, one after the other, and startSaving was asked for
\* while the second save was running
C3_Witness ==
    /\ Len(workers) = 2
    /\ workers[1].pc = "done"
    /\ workers[2].pc = "write"
    /\ call.op = "startSaving"
    /\ uiPc = "idle"

\* ---- C4 ----

\* C4 as claimed: startSaving with no session open succeeds and opens a session
\* also while a save is in progress.
C4_StartDuringSaveOpensSession ==
    [][(StartEntry /\ ~recording /\ saving) => recording']_vars

\* C4 amended: startSaving while the saving flag is set is refused: it opens no
\* session and leaves the recording flag, the buffer, the counter, the start
\* time and the buttons as they were.
C4_StartDuringSaveRefused ==
    [][(StartEntry /\ saving) =>
          (/\ uiPc' = "idle"
           /\ UNCHANGED <<recording, sessionNo, saveBuffer, recordedFrames,
                          recordStartTime, btnVars>>)]_vars

\* startSaving was refused during a save that has written a frame already
C4_Witness ==
    /\ saving
    /\ ~recording
    /\ call.op = "startSaving"
    /\ uiPc = "idle"
    /\ saveStartBtnEnabled
    /\ \E w \in ActiveWorkers : workers[w].i >= 1

\* ---- C5 ----

\* C5: stopSaving with no session open changes nothing (buffer, flags, counter,
\* buttons, save threads, disk), and once a stopSaving has returned the session
\* is closed, so the next stopSaving in a row is refused.
C5_StopWithoutSession ==
    [][/\ (StopEntry /\ ~recording) =>
             (/\ uiPc' = "idle"
              /\ UNCHANGED <<saveBuffer, recording, saving, recordedFrames, btnVars,
                             workers, disk, closedSessions>>)
       /\ (call'.op = "stopSaving" /\ uiPc' = "idle") => ~recording']_vars

\* stopSaving was invoked again after the session had been stopped
C5_Witness ==
    /\ call.op = "stopSaving"
    /\ ~call.recording
    /\ uiPc = "idle"
    /\ sessionNo >= 1
    /\ sessionNo \in closedSessions

\* ---- C6 ----

C7_StopClosesSession ==
    (call.op = "stopBtn" /\ uiPc = "idle" /\ ~viewerOnly)
        => (~recording /\ saveBuffer = <<>>)

\* C7 amended: the Stop handler leaves the recording session as it is: it
\* changes neither the recording flag, the buffer, the counter and start time,
\* nor the saving flag, and starts no save.
C7_StopLeavesSessionOpen ==
    [][(UiStep /\ call'.op = "stopBtn") =>
          UNCHANGED <<recording, saveBuffer, recordedFrames, recordStartTime,
                      saving, workers, disk>>]_vars

\* acquisition was stopped while a session with buffered frames was open
C7_Witness ==
    /\ call.op = "stopBtn"
    /\ call.recording
    /\ uiPc = "idle"
    /\ ~grabbing
    /\ recording
    /\ saveBuffer # <<>>

\* ---- C8 ----

\* C8 as claimed: startSaving invoked while the grabber is not running is
\* rejected and does not set the recording flag.
C8_StartOnlyWhileAcquiring ==
    [][(StartEntry /\ ~grabbing) => (recording' = recording)]_vars

\* C8 amended: startSaving is accepted whenever no save is in progress, whether
\* or not the grabber is running: it sets the recording flag and opens a session.
C8_StartAcceptedUnlessSaving ==
    [][(StartEntry /\ ~saving) =>
          (recording' /\ uiPc' = "start_clear" /\ sessionNo' = sessionNo + 1)]_vars

\* a session was opened before any acquisition had been started
C8_Witness ==
    /\ call.op = "startSaving"
    /\ uiPc = "idle"
    /\ recording
    /\ ~grabbing
    /\ acquired = 0
    /\ ~viewerOnly

\* ---- C9 ----

\* sequence lengths and indices at which the file names are compared
NamingSamples ==
    {1, 2, 3, 10, 11, 100, 101, 999999, 1000000, 1000001, 9999999, 10000000,
     10000001, 123456789}

SampleIndices(n) ==
    {i \in {0, 1, 2, 9, 10, 11, 99, 100, 101, 99999, 100000, 999998, 999999, 1000000,
            1000001, 9999999, 10000000, 99999999, 100000000, n - 2, n - 1} :
        0 <= i /\ i < n}

\* for the sampled lengths, the names of the indices 0..n-1 have the computed
\* width and sort as strings in the order of the indices
NamesSortNumerically ==
    \A n \in NamingSamples :
        \A i, j \in SampleIndices(n) :
            /\ Len(FileName(i, SaveWidth(n))) = SaveWidth(n)
            /\ (i < j) => LexLess(FileName(i, SaveWidth(n)), FileName(j, SaveWidth(n)))

\* the files a finished job is claimed to have left in its directory
ExpectedTiffs(wk) ==
    {[dir |-> wk.outDir,
      name |-> FileName(i, SaveWidth(Len(wk.frames))),
      img |-> wk.frames[i + 1]] : i \in 0..(Len(wk.frames) - 1)}

C10_EmptyStop ==
    [][/\ (uiPc = "stop_swap" /\ uiPc' = "idle" /\ saveBuffer = <<>>) =>
             (/\ UNCHANGED <<workers, disk>>
              /\ ~saving'
              /\ ~recording')
       /\ \A w \in 1..Len(workers') : workers'[w].frames # <<>>
       /\ disk'.dirs = {workers'[w].outDir : w \in 1..Len(workers')}]_vars

\* a session was opened and stopped without a frame: nothing was started or written
C10_Witness ==
    /\ call.op = "stopSaving"
    /\ call.recording
    /\ uiPc = "idle"
    /\ sessionNo \in closedSessions
    /\ ~recording
    /\ ~saving
    /\ workers = <<>>
    /\ disk = NoDisk
    /\ grabbing

\* ---- C11 ----

\* C11 as claimed: the directory of every save is named from the time at which
\* its recording session was started.
C11_DirNamedFromStart ==
    \A w \in 1..Len(workers) :
        workers[w].outDir = FormatSeconds(workers[w].recordStartStr)

\* C11 amended: the directory of a save is named from the time stopSaving reads
\* when it starts the save, which is not before the start of the session; the
\* start time of the session goes into the Start line of capture_info.txt only.
C11_DirNamedFromStop ==
    [][(Len(workers') = Len(workers) + 1) =>
          LET wk == workers'[Len(workers')]
          IN /\ wk.outDir = FormatSeconds(now')
             /\ wk.outDir \in disk'.dirs
             /\ wk.recordStartStr = FormatMillis(recordStartTime)
             /\ now' >= recordStartTime]_vars

\* a session started in one second and stopped in the next is being saved
C11_Witness ==
    \E w \in 1..Len(workers) :
        /\ workers[w].outDir # FormatSeconds(workers[w].recordStartStr)
        /\ workers[w].pc = "write"

\* ---- C12 ----

\* C12: any two saves have different directories, so no file written by one
\* save is replaced by a file of another.
C12_DistinctDirs ==
    \A v, w \in 1..Len(workers) : (v # w) => (workers[v].outDir # workers[w].outDir)

\* ---- C14 ----

\* C14 as claimed: once a save thread has signalled completion and cleared the
\* saving flag, every frame of its job has been passed to the codec and its
\* metadata record has been written.
C14_ClearedAfterAllWritten ==
    \A w \in 1..Len(workers) :
        workers[w].pc = "done" =>
            /\ Len(workers[w].log) = Len(workers[w].frames)
            /\ workers[w].infoOk

\* C14 amended: the saving flag is set while any frame of a job has not been
\* passed to the codec or capture_info.txt has not been attempted; the step that
\* signals completion and clears the flag is taken by a save thread that has
\* passed every frame to the codec and has written capture_info.txt or failed to
\* open it, and no other step clears the flag.
C14_ClearedAfterAllAttempted ==
    [][/\ \A w \in 1..Len(workers) :
             (workers[w].i < Len(workers[w].frames) \/ workers[w].pc = "write") => saving
       /\ (saving /\ ~saving') =>
             \E w \in 1..Len(workers) :
                 /\ workers[w].pc = "finish"
                 /\ workers'[w].pc = "done"
                 /\ workers[w].i = Len(workers[w].frames)
                 /\ Len(workers[w].log) = Len(workers[w].frames)
                 /\ workers[w].infoOk =>
                        \E f \in disk.info :
                            f.dir = workers[w].outDir /\ f.frames = Len(workers[w].frames)
       /\ \A w \in 1..Len(workers) :
             (workers[w].pc # "done" /\ workers'[w].pc = "done") => (saving /\ ~saving')]_vars

\* a save of two frames has cleared the flag with capture_info.txt written
C14_Witness ==
    /\ ~saving
    /\ \E w \in 1..Len(workers) :
          /\ workers[w].pc = "done"
          /\ Len(workers[w].frames) = 2
          /\ workers[w].infoOk
          /\ \E f \in disk.info : f.dir = workers[w].outDir /\ f.frames = 2

\* ---- C15 ----

\* C15: under fair scheduling of the save thread, whenever the saving flag is
\* set it is eventually cleared again, whatever the control and acquisition
\* contexts do meanwhile and whichever writes fail.
C15_SaveTerminates == saving ~> ~saving

\* a save has run to its end although a write failed, during acquisition and
\* with startSaving asked for meanwhile
C15_Witness ==
    /\ ~saving
    /\ grabbing
    /\ call.op = "startSaving"
    /\ ~recording
    /\ \E w \in 1..Len(workers) :
          /\ workers[w].pc = "done"
          /\ \E k \in 1..Len(workers[w].log) : ~workers[w].log[k].ok

\* ---- C16 ----

\* job lengths at which the sequence of progress values is examined
ProgressSamples == {1, 2, 3, 99, 100, 101, 102, 199, 200, 201, 202, 250, 301}

\* a sequence of progress values for a job of n frames of which i are written:
\* strictly increasing, within 1..i, at most 100 apart, starting at 1
ProgressWellFormed(p, i, n) ==
    /\ \A k \in 1..Len(p) : 1 <= p[k] /\ p[k] <= i /\ p[k] <= n
    /\ \A k \in 1..(Len(p) - 1) :
          p[k] < p[k + 1] /\ p[k + 1] - p[k] <= ProgressEvery
    /\ (i >= 1) => (Len(p) >= 1 /\ p[1] = 1)
    /\ (Len(p) >= 1) => (i - p[Len(p)] < ProgressEvery)

\* for the sampled N the loop's progress values are well formed and end with N
ProgressSamplesOK ==
    \A n \in ProgressSamples :
        LET p == ProgressFrom(0, n)
        IN ProgressWellFormed(p, n, n) /\ p[Len(p)] = n

\* C16: the progress values a save thread emits are strictly increasing, each
\* between 1 and N, never more than 100 frames apart, and the last one emitted
\* by a finished run is N; the same holds of the loop for the sampled N.
C16_ProgressCadence ==
    /\ ProgressSamplesOK
    /\ \A w \in 1..Len(workers) :
          LET wk == workers[w]
              n == Len(wk.frames)
          IN /\ ProgressWellFormed(wk.progress, wk.i, n)
             /\ (wk.i = n) => (wk.progress # <<>> /\ wk.progress[Len(wk.progress)] = n)

\* a save of two frames has emitted the update of the first and of the last frame
C16_Witness ==
    \E w \in 1..Len(workers) :
        /\ workers[w].pc = "done"
        /\ workers[w].progress = <<1, 2>>

\* ---- C17 ----

\* the indices for which a save thread has called the codec
AttemptedIndices(wk) ==
    {k - 1 : k \in {j \in 1..Len(wk.log) : wk.log[j].name = FileName(j - 1, wk.width)}}

\* C17 as claimed: a finished save with failed frame writes has attempted every
\* index 0..N-1 and has written its metadata record.
C17_FailuresThenInfoWritten ==
    \A w \in 1..Len(workers) :
        (workers[w].pc = "done" /\ \E k \in 1..Len(workers[w].log) : ~workers[w].log[k].ok)
            => /\ AttemptedIndices(workers[w]) = 0..(Len(workers[w].frames) - 1)
               /\ \E f \in disk.info : f.dir = workers[w].outDir

\* C17 amended: a failed frame write does not abort the save: the thread goes on
\* with the next index, so every index 0..N-1 is attempted once and in order
\* whichever writes fail, and only then capture_info.txt is attempted; it is
\* written if the file could be opened.
C17_FailedWriteDoesNotAbort ==
    [][\A w \in 1..Len(workers) :
          LET wk == workers[w]
              n == Len(wk.frames)
          IN /\ AttemptedIndices(wk) = 0..(wk.i - 1)
             /\ (Len(wk.log) < Len(workers'[w].log)) =>
                    /\ workers'[w].i = wk.i + 1
                    /\ workers'[w].pc = "write"
                    /\ Len(workers'[w].log) = wk.i + 1
             /\ (wk.pc = "write" /\ workers'[w].pc # "write") =>
                    /\ workers'[w].pc = "finish"
                    /\ AttemptedIndices(wk) = 0..(n - 1)
                    /\ workers'[w].infoOk =>
                           \E f \in disk'.info :
                               f.dir = wk.outDir /\ f.start = wk.recordStartStr
                                   /\ f.frames = n]_vars

\* a save of two frames has finished with both frame writes failed and
\* capture_info.txt written
C17_Witness ==
    \E w \in 1..Len(workers) :
        /\ workers[w].pc = "done"
        /\ Len(workers[w].log) = 2
        /\ ~workers[w].log[1].ok
        /\ ~workers[w].log[2].ok
        /\ workers[w].infoOk
        /\ \E f \in disk.info : f.dir = workers[w].outDir

\* ---- C13 ----

\* C13: a save thread carries the FrameMeta and the exposure that stopSaving
\* read when it started the save; they and the frames of the job do not change
\* while the thread runs, whatever frames are displayed and however the
\* exposure field is edited meanwhile; capture_info.txt, when written, holds
\* those values and Frames = the number of frames of the job, and nothing else
\* writes capture_info.txt.
C13_InfoFromStopSnapshot ==
    [][/\ (Len(workers') = Len(workers) + 1) =>
             /\ workers'[Len(workers')].metaCopy = lastMeta
             /\ workers'[Len(workers')].expMsCopy = exposureSpin
       /\ \A w \in 1..Len(workers) :
             /\ workers'[w].metaCopy = workers[w].metaCopy
             /\ workers'[w].expMsCopy = workers[w].expMsCopy
             /\ workers'[w].frames = workers[w].frames
             /\ (workers[w].pc = "write" /\ workers'[w].pc = "finish"
                     /\ workers'[w].infoOk) =>
                    [dir |-> workers[w].outDir,
                     start |-> workers[w].recordStartStr,
                     frames |-> Len(workers[w].frames),
                     meta |-> workers[w].metaCopy,
                     exposure |-> workers[w].expMsCopy] \in disk'.info
       /\ (disk'.info # disk.info) =>
             \E w \in 1..Len(workers) :
                 workers[w].pc = "write" /\ workers'[w].pc = "finish"]_vars

\* capture_info.txt has been written with the values of the stop although a
\* later frame was displayed and the exposure was edited during the save
C13_Witness ==
    \E w \in 1..Len(workers) :
        /\ workers[w].pc = "finish"
        /\ workers[w].infoOk
        /\ workers[w].metaCopy # lastMeta
        /\ workers[w].metaCopy # NoMeta
        /\ workers[w].expMsCopy # exposureSpin
        /\ InfoRecord(workers[w]) \in disk.info

\* ---- C18 ----

\* a step of the Capture Frame handler that shows in the state
CaptureStep ==
    /\ uiPc = "idle"
    /\ call'.op = "capture"
    /\ \/ call' # call
       \/ captureStatus' # captureStatus
       \/ disk'.captures # disk.captures

\* C18: Capture Frame with no frame displayed yet reports "No frame to capture"
\* and writes nothing; otherwise it either reports "Capture failed" and writes
\* nothing, or writes the frame displayed last under a name taken from the
\* current time and changes no other file; in every outcome the recording flag,
\* the saving flag, the recording buffer, the frame counter, the save threads
\* and the sequence directories are as before.
C18_CaptureFrame ==
    [][CaptureStep =>
          /\ UNCHANGED <<recording, saving, saveBuffer, recordedFrames, recordStartTime,
                         workers, btnVars, uiPc, lastFrame, lastMeta>>
          /\ disk'.dirs = disk.dirs /\ disk'.tiff = disk.tiff /\ disk'.info = disk.info
          /\ (lastFrame = 0) =>
                 (captureStatus' = "No frame to capture" /\ disk' = disk)
          /\ (lastFrame # 0) =>
                 \/ captureStatus' = "Capture failed" /\ disk' = disk
                 \/ /\ captureStatus' = "Captured"
                    /\ [name |-> FormatMillis(now'), img |-> lastFrame] \in disk'.captures
                    /\ \A f \in disk'.captures :
                           f.name # FormatMillis(now') => f \in disk.captures]_vars

\* the second frame, the one displayed last, was captured while a session with
\* buffered frames was open
C18_Witness ==
    /\ captureStatus = "Captured"
    /\ call.op = "capture"
    /\ call.recording
    /\ recording
    /\ saveBuffer # <<>>
    /\ lastFrame = 2
    /\ \E f \in disk.captures : f.img = 2

\* ---- the grabber's counters (SpecStats) ----

\* a step of the acquisition loop whose waitForFrame yielded a frame
FrameDelivered == acquired' = acquired + 1

\* a step of the acquisition loop whose waitForFrame timed out
TimedOut == tracker'.lastWait = "Timeout" /\ acquired' = acquired /\ grabbing'

\* a step that starts a new acquisition run
RunStarts == ~grabbing /\ grabbing'

\* C19: within one acquisition run the delivered count goes up by exactly one with
\* every frame waitForFrame yields and stays as it is on a timeout, and the dropped
\* count never goes down, whatever frame indices the device reports (indices that
\* stay where they were or start again from a lower value included).
C19_CountersMonotonic ==
    [][grabbing =>
         /\ FrameDelivered => tracker'.delivered = tracker.delivered + 1
         /\ TimedOut => tracker'.delivered = tracker.delivered
         /\ tracker'.dropped >= tracker.dropped]_vars

CeilDiv(a, k) == (a + k - 1) \div k

\* the number of the frame acquired last before the current run
RunBase == acquired - tracker.delivered

\* the frames of the current run dispatched to the display, in dispatch order (the
\* queue is not consumed under SpecThrottle)
RunDispatched == SelectSeq(displayQueue, LAMBDA f : f > RunBase)

\* C21: in a run that has acquired A frames with the display interval k, the display
\* got ceil(A / k) dispatches, in acquisition order, and every frame of the run when
\* k = 1; whatever k is, every acquired frame is counted as delivered and is handed to
\* the record hook, which takes it while a session is open.
C21_DisplayEveryKth ==
    /\ [](/\ Len(RunDispatched) = CeilDiv(tracker.delivered, displayEvery)
          /\ \A a, b \in 1..Len(RunDispatched) :
                 a < b => RunDispatched[a] < RunDispatched[b]
          /\ displayEvery = 1 => Range(RunDispatched) = (RunBase + 1)..acquired)
    /\ [][FrameDelivered =>
            /\ tracker'.delivered = tracker.delivered + 1
            /\ recording => (hookPc' = "lock" /\ hookImg' = acquired')]_vars

\* with the interval 2 a run acquired two frames while a session was open: the first
\* was dispatched, the second was not, and both were recorded
C21_Witness ==
    /\ displayEvery = 2
    /\ tracker.delivered = 2
    /\ displayQueue = <<1>>
    /\ saveBuffer = <<1, 2>>
    /\ recordedFrames = 2

\* ---- stop of acquisition ----

\* stop() has returned on the control context and no handler was invoked since
StopReturned == ~viewerOnly /\ call.op = "stopBtn" /\ uiPc = "idle"

\* the acquisition loop is not running and no stop() is waiting for it
LoopStopped == ~grabbing /\ uiPc # "stop_join"

\* C22: once stop() has returned and until acquisition is started again, every step
\* leaves the acquisition context idle: no frame is acquired, no frameReady is
\* dispatched and nothing is appended to the recording buffer, whichever point of an
\* iteration the loop had reached when stop() was called.
C22_NoCallbackAfterStop ==
    [][(StopReturned \/ LoopStopped) =>
          /\ hookPc = "idle" /\ hookPc' = "idle"
          /\ acquired' = acquired
          /\ Len(displayQueue') <= Len(displayQueue)
          /\ Len(saveBuffer') <= Len(saveBuffer)
          /\ recordedFrames' <= recordedFrames]_vars

\* stop() has returned with a session open: the frames the hook took are in the
\* buffer, counted, and a dispatched frame is still queued for the control context
C22_Witness ==
    /\ StopReturned
    /\ ~grabbing
    /\ recording
    /\ saveBuffer # <<>>
    /\ recordedFrames = Len(saveBuffer)
    /\ displayQueue # <<>>

\* ---- outcomes of waitForFrame ----

\* a step of the acquisition loop whose waitForFrame reported an error
ErrorReported == tracker'.lastWait = "Error" /\ tracker.lastWait # "Error"

\* a step of the acquisition loop whose waitForFrame timed out after another outcome
TimeoutReported == tracker'.lastWait = "Timeout" /\ tracker.lastWait # "Timeout"

\* C23: a timeout of waitForFrame leaves the acquisition loop running; an error stops
\* it, and from then on no frame is acquired and the loop does not run again until
\* the Start handler starts it: the loop never retries by itself.
C23_TimeoutContinuesErrorStops ==
    [][/\ TimeoutReported => grabbing'
       /\ (tracker.lastWait = "Timeout" /\ grabbing /\ ~grabbing') =>
              (call'.op = "stopBtn" \/ ErrorReported)
       /\ ErrorReported => ~grabbing'
       /\ tracker.lastWait = "Error" =>
              /\ ~grabbing
              /\ acquired' = acquired
              /\ grabbing' => call'.op = "startBtn"]_vars

\* the loop reported an error after it had delivered a frame and stopped, with no
\* stop requested by the operator
C23_Witness ==
    /\ tracker.lastWait = "Error"
    /\ tracker.delivered = 1
    /\ ~grabbing
    /\ call.op = "startBtn"

\* ---- the viewer window (SpecViewer) ----

\* the step the claim gives each shortcut
ClaimedStep ==
    ("Left" :> 0 - 1) @@ ("Right" :> 1) @@ ("CtrlLeft" :> 0 - 5) @@ ("CtrlRight" :> 5)
        @@ ("PageUp" :> 0 - 10) @@ ("PageDown" :> 10)

\* C24: Left/Right move the slider value by -1/+1, Ctrl+Left/Ctrl+Right by -5/+5 and
\* PageUp/PageDown by -10/+10, clamped to 0..frameCount-1; with frames loaded the value
\* is within 0..frameCount-1 after any sequence of shortcuts, Prev/Next clicks, slider
\* moves and folder loads, and with no frames loaded every shortcut leaves it as it is.
C24_ViewerIndexInRange ==
    /\ [](viewer.count > 0 => viewer.value \in 0..(viewer.count - 1))
    /\ [][(viewer'.last \in Keys /\ viewer' # viewer) =>
            /\ viewer'.count = viewer.count
            /\ viewer'.value = IF viewer.count = 0
                                 THEN viewer.value
                                 ELSE Clamp(viewer.value + ClaimedStep[viewer'.last],
                                            0, viewer.count - 1)]_vars

\* PageDown moved the slider by the full ten frames in a folder of twelve
C24_Witness ==
    /\ viewer.last = "PageDown"
    /\ viewer.count = 12
    /\ viewer.value = 10

\* ---- the recording flag and the buffer lock ----

\* the control context is between the write of the recording flag and the critical
\* section that clears or swaps the buffer
BeforeCriticalSection == uiPc \in {"start_clear", "stop_swap"}

\* a step of the control context that is its critical section on the buffer
CriticalSection == BeforeCriticalSection /\ uiPc' # uiPc /\ saveMutex = "free"

\* C25: the recording flag changes only inside the critical section of startSaving
\* that clears the buffer or of stopSaving that swaps it, so that no record hook reads
\* the flag between its change and the clear or swap.
C25_FlagWrittenUnderLock ==
    [][/\ recording' # recording => CriticalSection
       /\ FrameDelivered => ~BeforeCriticalSection]_vars

\* C26: whenever a session is open and neither the record hook nor a handler holds
\* the buffer lock, the frame counter equals the number of buffered frames.
C26_CounterMatchesBuffer ==
    (recording /\ saveMutex = "free") => recordedFrames = Len(saveBuffer)

\* C27: while no session is open and no stopSaving is still to swap the buffer, the
\* recording buffer is empty: a record hook that runs outside a session appends
\* nothing, also when it read the flag before the stop and takes the lock after the
\* swap.
C27_BufferEmptyOutsideSession ==
    (~recording /\ uiPc # "stop_swap") => saveBuffer = <<>>

\* ---- the save job and the buffer lock ----

\* a step of a save thread
SaveStep == workers' # workers /\ Len(workers') = Len(workers)

\* C28: the frames of a save job stay as they were handed over, whatever the record
\* hook, startSaving and stopSaving do; a step of a save thread touches neither the
\* buffer lock, the buffer nor the frame counter; and a record hook that is about to
\* take the lock while a save is running can take it.
C28_SaveJobIsolated ==
    [][/\ \A w \in 1..Len(workers) :
              w <= Len(workers') /\ workers'[w].frames = workers[w].frames
       /\ SaveStep => UNCHANGED <<saveMutex, saveBuffer, recordedFrames, recording,
                                  hookPc, hookImg>>
       /\ (hookPc = "lock" /\ saving) => ENABLED HookPush]_vars

\* a save thread has written the frame of its job while the record hook appended the
\* next frame to the buffer
C28_Witness ==
    /\ saving
    /\ hookPc = "inc"
    /\ saveBuffer = <<2>>
    /\ \E w \in 1..Len(workers) :
          /\ workers[w].pc = "write"
          /\ workers[w].frames = <<1>>
          /\ workers[w].i = 1

\* ---- the end of the process (SpecExit) ----

\* C29: when main has returned, every save thread that was started has finished: none
\* is still writing frames or metadata or has yet to report completion.
C29_ExitWaitsForSave ==
    uiPc = "exited" => (~saving /\ \A w \in 1..Len(workers) : workers[w].pc = "done")

\* ---- Start Save during a save ----

\* C30: a startSaving invoked while the saving flag is set returns with everything but
\* the status text as it was: the recording flag, the buffer, the frame counter, the
\* start time and the clock, the two buttons and the info timer, and the save
\* threads, their flag and their files.
C30_StartRefusedWhileSaving ==
    [][(StartEntry /\ saving) =>
          UNCHANGED <<recording, saveBuffer, recordedFrames, recordStartTime, now,
                      btnVars, uiPc, hookPc, saveMutex, sessionNo, closedSessions,
                      saving, workers, disk>>]_vars

\* startSaving was refused during a save while the buffer held a frame appended after
\* the swap: the frame is still there
C30_Witness ==
    /\ saving
    /\ call.op = "startSaving"
    /\ uiPc = "idle"
    /\ saveBuffer # <<>>
    /\ recordedFrames > 0
    /\ ActiveWorkers # {}

====
